---- MODULE Spec2Model ----
(***************************************************************************)
(* Transaction ingestion and staging pipeline of the expense tracker:      *)
(* the Gmail incremental fetch with its watermark cursor (syncEmailsAction)*)
(* the staging collection 'mailstaging', the Gemini extraction run         *)
(* (processStagingAction), the SMS webhook (POST) and the review, retry    *)
(* and delete handlers of the sync view.                                   *)
(*                                                                         *)
(* Every await of a server action is an interleaving point.  Steps that    *)
(* touch only the run's own locals are merged into the next step that      *)
(* reads or writes a shared document.                                      *)
(***************************************************************************)
EXTENDS Integers, Sequences, FiniteSets, TLC

\* ---- bounds of the model ------------------------------------------------
MaxMsgs == 3          \* messages in the mailbox, two fetch runs
MaxPipeMsgs == 2      \* messages in the mailbox, whole pipeline
MaxBurstMsgs == 23    \* messages in the mailbox, burst specification
MaxLead == 2          \* messages that arrive singly before the burst
MaxSms == 1           \* SMS webhook posts that are staged
MaxTicks == 2         \* steps of the clock
MaxTrigMsgs == 1      \* messages in the mailbox, trigger specifications
MaxBatchSms == 11     \* SMS webhook posts that are staged, batch specification
MaxLongSms == 1       \* of these, posts whose body has 10 characters or more

\* ---- program constants ---------------------------------------------------
MsPerSec == 1000          \* toMillis() / 1000
ColdMaxResults == 2       \* maxResults without a cursor document
WarmMaxResults == 20      \* maxResults with a cursor document
NoContentLen == 22        \* length of "(No Content Extracted)"
MinContentLen == 10       \* content.length < 10 is skipped
ProcessLimit == 10        \* .limit(10) of the pending query
AutoSyncCooldown == 900000   \* GmailSyncModal line 146: 15 * 60 * 1000
AutoProcessCooldown == 15000 \* GmailSyncModal line 182: 15 * 1000
StartTime == 1000000         \* Date.now() when the model starts

User == "user@mail"
UnknownMobile == "unknown_mobile"

\* the values of userEmail the server action processStagingAction is called
\* with: it takes any string and compares it with the userEmail field
AccountKeys == {User, UnknownMobile}

\* The two call sites that can have a fetch in flight together: the
\* auto-sync effect and the Sync Now / Connect handlers.
Runs == {"auto", "manual"}

\* Extraction runs that can be in flight together, by the call that starts
\* them: the auto-process effect (line 192), handleRetry (line 119), the
\* follow-up of an automatic sync (line 158) and handleSyncNow (line 221);
\* "again" is a call of the auto-process effect while its earlier call is
\* outstanding.
EffectRuns == {"effect", "again"}
Procs == EffectRuns \cup {"handler", "followup", "manual"}

VARIABLES
  mailbox,      \* provider: messages with label:transactions, arrival order
  cursor,       \* mailstaging/<user>_sync_cursor
  staging,      \* mailstaging: document id -> staging document
  syncPc,       \* per fetch run: position in syncEmailsAction
  syncSnap,     \* per fetch run: cursorDoc as read at step 1
  syncPage,     \* per fetch run: response.data.messages (ids, newest first)
  syncResult,   \* per fetch run: the SyncResult returned
  syncWrote,    \* history: staging documents the run's batch has written
  procPc,       \* per extraction run: position in processStagingAction
  procSel,      \* per extraction run: snapshot.docs of the pending query
  procResp,     \* per extraction run: response.text() per selected document
  procResult,   \* per extraction run: the result returned
  smsCount,     \* SMS webhook: documents added so far
  smsReply,     \* SMS webhook: the latest response
  smsRequest,   \* history: sender and body of the latest SMS request
  activeStagingId, \* Dashboard state: the staging item opened for review
  formOpen,     \* Dashboard state isModalOpen: the expense form is shown
  formItem,     \* Dashboard state initialModalData: the item that filled the form
  now,          \* Date.now() of the browser, in ms
  lastAutoSync, \* localStorage gmail_last_auto_sync_<email>, 0 when absent
  lastAutoProcess, \* localStorage gmail_last_auto_process_<email>, 0 when absent
  token,        \* user_secrets/<email>.gmail_refresh_token as the provider sees it
  syncError,    \* GmailSyncModal state error is not empty
  retryPc,      \* position in handleRetry
  ticks,        \* history: steps of the clock so far
  prevFire,     \* history: the latest firing of the auto-sync effect
  authFailed,   \* history: an unattended fetch was refused for its credential
  lastAutoExtract, \* history: time of the latest automatic extraction call, 0 when none
  lastSyncedAt, \* user_secrets/<email>.lastSyncedAt in ms, 0 when absent
  promoted      \* history: items whose expense form was saved

syncVars == <<syncPc, syncSnap, syncPage, syncResult, syncWrote>>
procVars == <<procPc, procSel, procResp, procResult>>
uiVars == <<smsCount, smsReply, smsRequest, activeStagingId>>
formVars == <<formOpen, formItem, promoted>>
viewVars == <<now, lastAutoSync, lastAutoProcess, token, syncError, retryPc,
              ticks, prevFire, authFailed, lastAutoExtract>>
trigVars == <<viewVars, lastSyncedAt>>
appVars == <<formVars, trigVars>>

vars == <<mailbox, cursor, staging, syncVars, procVars, uiVars, appVars>>

\* ---- values ---------------------------------------------------------------
NoCursor == [exists |-> FALSE, last_date |-> 0, last_entry |-> 0]
NoResult == [success |-> FALSE, count |-> -1]
NoReply == [status |-> 0, success |-> FALSE]
NoRequest == [sender |-> <<>>, body |-> <<>>]
NoDoc == <<"none">>
NoFire == [at |-> 0, called |-> FALSE, reset |-> FALSE]

Absent == <<"absent">>
NullField == <<"null">>
Text(t) == <<"text", t>>

MsgDocId(i) == <<"gm", i>>

Max(a, b) == IF a >= b THEN a ELSE b
Min(a, b) == IF a <= b THEN a ELSE b

RECURSIVE SeqMax(_)
SeqMax(s) == IF s = <<>> THEN 0 ELSE Max(Head(s), SeqMax(Tail(s)))

Range(s) == {s[i] : i \in DOMAIN s}

\* ---- provider: gmail.users.messages.list ---------------------------------
\* Query 'label:transactions after:<seconds>'.  The provider compares whole
\* seconds and keeps a message received in the second named by the query.
AfterSeconds(snap) ==
  IF snap.exists /\ snap.last_date > 0 THEN snap.last_date \div MsPerSec ELSE 0

Matching(box, after) ==
  {i \in DOMAIN box : box[i].internalDate \div MsPerSec >= after}

\* newest first: internalDate is non-decreasing in arrival order
Descending(S) ==
  [k \in 1..Cardinality(S) |->
     CHOOSE x \in S : Cardinality({y \in S : y > x}) = k - 1]

ListMessages(box, after, maxResults) ==
  LET all == Descending(Matching(box, after))
  IN SubSeq(all, 1, Min(Len(all), maxResults))

MaxResultsFor(snap) == IF snap.exists THEN WarmMaxResults ELSE ColdMaxResults

\* ---- syncEmailsAction: locals as functions of the snapshot and the page --
FindIndex(page, id) ==
  IF \E k \in DOMAIN page : page[k] = id
  THEN (CHOOSE k \in DOMAIN page : page[k] = id /\ \A j \in 1..(k-1) : page[j] # id) - 1
  ELSE -1

\* lines 584-593: slice(0, limitIndex) when the watermark id is in the page
NewMessagesMutantInclusive(snap, page) ==
  LET lastEntry == snap.last_entry
      limitIndex == FindIndex(page, lastEntry)
  IN IF lastEntry # 0 /\ limitIndex # -1 THEN SubSeq(page, 1, limitIndex + 1)
     ELSE page
NewMessagesMutantSlice(snap, page) ==
  LET lastEntry == snap.last_entry
      limitIndex == FindIndex(page, lastEntry)
  IN IF lastEntry # 0
     THEN SubSeq(page, 1, IF limitIndex = -1 THEN Len(page) - 1 ELSE limitIndex)
     ELSE page
NewMessagesMutantAll(snap, page) == page
NewMessages(snap, page) ==
  LET lastEntry == snap.last_entry
      limitIndex == FindIndex(page, lastEntry)
  IN IF lastEntry # 0 /\ limitIndex # -1 THEN SubSeq(page, 1, limitIndex)
     ELSE page

\* lines 609-648: the documents the batch holds when the loop ends
EmailDoc(i, box) ==
  [emailId |-> MsgDocId(i), status |-> "pending", parsedData |-> Absent,
   userEmail |-> User, type |-> "unset", receivedAt |-> box[i].internalDate,
   contentLen |-> NoContentLen]

BatchIds(new, box) == {new[k] : k \in {j \in DOMAIN new : box[new[j]].payload}}

\* line 638: collection('mailstaging').doc(msg.id), the message id is the key
StagingDocIdMutantAdd(i, stg) == <<"gm", i, Cardinality(DOMAIN stg)>>
StagingDocId(i, stg) == MsgDocId(i)

\* lines 639-647: batch.set(ref, {...}) without merge replaces the document
BatchSet(stg, ids, box) ==
  [d \in DOMAIN stg \cup {StagingDocId(i, stg) : i \in ids} |->
     IF \E i \in ids : StagingDocId(i, stg) = d
     THEN LET i == CHOOSE j \in ids : StagingDocId(j, stg) = d IN EmailDoc(i, box)
     ELSE stg[d]]

\* line 613: the first message of newMessages
LatestEmailIdMutantOldest(new) == IF new = <<>> THEN 0 ELSE new[Len(new)]
LatestEmailId(new) == IF new = <<>> THEN 0 ELSE new[1]

\* lines 627-631: the largest internalDate among the messages with a payload
LatestDateMutantAll(new, box) ==
  SeqMax([k \in DOMAIN new |-> box[new[k]].internalDate])

LatestDate(new, box) ==
  SeqMax([k \in DOMAIN new |->
            IF box[new[k]].payload THEN box[new[k]].internalDate ELSE 0])

\* lines 653-666: set(updates, {merge: true})
CursorUpdate(cur, new, box) ==
  [exists |-> TRUE,
   last_date |-> IF LatestDate(new, box) > 0 THEN LatestDate(new, box)
                 ELSE cur.last_date,
   last_entry |-> IF LatestEmailId(new) # 0 THEN LatestEmailId(new)
                  ELSE cur.last_entry]

\* ---- text of a model response: sequences of characters -------------------
Ws == {" ", "\n", "\t", "\r"}
DigitChars == {"0", "1", "2", "3", "4", "5", "6", "7", "8", "9"}

RECURSIVE TrimLeft(_)
TrimLeft(s) == IF s # <<>> /\ Head(s) \in Ws THEN TrimLeft(Tail(s)) ELSE s

RECURSIVE TrimRight(_)
TrimRight(s) ==
  IF s # <<>> /\ s[Len(s)] \in Ws THEN TrimRight(SubSeq(s, 1, Len(s) - 1)) ELSE s

\* String.prototype.trim
Trim(s) == TrimRight(TrimLeft(s))

StartsWith(s, pat) == Len(s) >= Len(pat) /\ SubSeq(s, 1, Len(pat)) = pat

Drop(s, n) == SubSeq(s, n + 1, Len(s))

\* String.prototype.replace(/pat/g, '')
RECURSIVE ReplaceAll(_, _)
ReplaceAll(s, pat) ==
  IF s = <<>> THEN <<>>
  ELSE IF StartsWith(s, pat) THEN ReplaceAll(Drop(s, Len(pat)), pat)
  ELSE <<Head(s)>> \o ReplaceAll(Tail(s), pat)

\* the backquote character is written "bq"
Fence == <<"bq", "bq", "bq">>
FenceJson == Fence \o <<"j", "s", "o", "n">>

\* line 742: both fence patterns are replaced by the empty string, then trim()
StripFences(text) == Trim(ReplaceAll(ReplaceAll(text, FenceJson), Fence))

\* JSON.parse: does the text parse (objects, arrays, strings without
\* escapes, non-negative integers, the three literals)
ParseFail == [ok |-> FALSE, rest |-> <<>>]
ParseOk(rest) == [ok |-> TRUE, rest |-> rest]

ParseLiteral(s, lit) == IF StartsWith(s, lit) THEN ParseOk(Drop(s, Len(lit))) ELSE ParseFail

RECURSIVE ParseDigits(_)
ParseDigits(s) ==
  IF s # <<>> /\ Head(s) \in DigitChars THEN ParseDigits(Tail(s)) ELSE ParseOk(s)

ParseNumber(s) == IF Head(s) = "0" THEN ParseOk(Tail(s)) ELSE ParseDigits(Tail(s))

RECURSIVE ParseStringBody(_)
ParseStringBody(s) ==
  IF s = <<>> \/ Head(s) \in {"\n", "\t", "\r", "\\"} THEN ParseFail
  ELSE IF Head(s) = "\"" THEN ParseOk(Tail(s))
  ELSE ParseStringBody(Tail(s))

RECURSIVE ParseValue(_)
RECURSIVE ParseElements(_)
RECURSIVE ParseMembers(_)

ParseValue(s0) ==
  LET s == TrimLeft(s0)
  IN IF s = <<>> THEN ParseFail
     ELSE IF Head(s) = "n" THEN ParseLiteral(s, <<"n", "u", "l", "l">>)
     ELSE IF Head(s) = "t" THEN ParseLiteral(s, <<"t", "r", "u", "e">>)
     ELSE IF Head(s) = "f" THEN ParseLiteral(s, <<"f", "a", "l", "s", "e">>)
     ELSE IF Head(s) = "\"" THEN ParseStringBody(Tail(s))
     ELSE IF Head(s) \in DigitChars THEN ParseNumber(s)
     ELSE IF Head(s) = "["
       THEN LET r == TrimLeft(Tail(s))
            IN IF r # <<>> /\ Head(r) = "]" THEN ParseOk(Tail(r))
               ELSE ParseElements(r)
     ELSE IF Head(s) = "{"
       THEN LET r == TrimLeft(Tail(s))
            IN IF r # <<>> /\ Head(r) = "}" THEN ParseOk(Tail(r))
               ELSE ParseMembers(r)
     ELSE ParseFail

ParseElements(s) ==
  LET v == ParseValue(s)
      r == TrimLeft(v.rest)
  IN IF ~v.ok \/ r = <<>> THEN ParseFail
     ELSE IF Head(r) = "," THEN ParseElements(Tail(r))
     ELSE IF Head(r) = "]" THEN ParseOk(Tail(r))
     ELSE ParseFail

ParseMembers(s0) ==
  LET s == TrimLeft(s0)
      k == IF s # <<>> /\ Head(s) = "\"" THEN ParseStringBody(Tail(s)) ELSE ParseFail
      c == TrimLeft(k.rest)
      v == IF k.ok /\ c # <<>> /\ Head(c) = ":" THEN ParseValue(Tail(c)) ELSE ParseFail
      r == TrimLeft(v.rest)
  IN IF ~v.ok \/ r = <<>> THEN ParseFail
     ELSE IF Head(r) = "," THEN ParseMembers(Tail(r))
     ELSE IF Head(r) = "}" THEN ParseOk(Tail(r))
     ELSE ParseFail

JsonParses(s) == LET v == ParseValue(s) IN v.ok /\ TrimLeft(v.rest) = <<>>

TxtNull == <<"n", "u", "l", "l">>
TxtObject == <<"{", "\"", "a", "\"", ":", "5", "}">>
TxtFencedObject == FenceJson \o <<"\n">> \o TxtObject \o <<"\n">> \o Fence
TxtFencedNull == Fence \o <<"\n">> \o TxtNull \o <<"\n">> \o Fence
TxtSplitNull == <<"n", "u">> \o Fence \o <<"l", "l">>
TxtNotJson == <<"n", "o", "t", " ", "j", "s", "o", "n">>
TxtNumber == <<"5">>
TxtZero == <<"0">>
TxtTruncated == <<"{", "\"", "a", "\"", ":">>

\* result of model.generateContent(): a text, or the call rejects
Thrown == [thrown |-> TRUE, text |-> <<>>]
Reply(t) == [thrown |-> FALSE, text |-> t]

Responses ==
  {Reply(t) : t \in {TxtNull, TxtObject, TxtFencedObject, TxtFencedNull,
                     TxtSplitNull, TxtNotJson, TxtNumber, TxtZero,
                     TxtTruncated, <<>>}} \cup {Thrown}

\* the responses of the interleaving specification
FewResponses == {Reply(TxtFencedNull), Reply(TxtFencedObject)}

\* lines 739-761: the update queued for one selected document
ItemUpdateMutantParseFirst(resp) ==
  IF resp.thrown THEN [status |-> "error", hasData |-> FALSE, data |-> <<>>]
  ELSE LET text == StripFences(resp.text)
       IN IF JsonParses(text)
          THEN [status |-> "review", hasData |-> TRUE, data |-> text]
          ELSE [status |-> "error", hasData |-> FALSE, data |-> <<>>]
ItemUpdate(resp) ==
  IF resp.thrown THEN [status |-> "error", hasData |-> FALSE, data |-> <<>>]
  ELSE LET text == StripFences(resp.text)
       IN IF text = TxtNull
          THEN [status |-> "error", hasData |-> FALSE, data |-> <<>>]
          ELSE IF JsonParses(text)
          THEN [status |-> "review", hasData |-> TRUE, data |-> text]
          ELSE [status |-> "error", hasData |-> FALSE, data |-> <<>>]

\* batch.update(doc.ref, {...}): named fields are replaced, others kept
ApplyUpdate(doc, u) ==
  [doc EXCEPT !.status = u.status,
              !.parsedData = IF u.hasData THEN Text(u.data) ELSE @]

\* GmailSyncModal lines 337-342, 397: JSON.parse(item.parsedData) is truthy
Truthy(pd) ==
  /\ pd[1] = "text"
  /\ JsonParses(pd[2])
  /\ Trim(pd[2]) \notin {TxtNull, TxtZero, <<"f", "a", "l", "s", "e">>, <<"\"", "\"">>}

\* ---- SMS webhook ------------------------------------------------------------
LowerCase ==
  [c \in {"D", "E", "B", "I", "T", "S", "P", "N"} |->
     CASE c = "D" -> "d" [] c = "E" -> "e" [] c = "B" -> "b" [] c = "I" -> "i"
       [] c = "T" -> "t" [] c = "S" -> "s" [] c = "P" -> "p" [] c = "N" -> "n"]

Lower(s) == [k \in DOMAIN s |-> IF s[k] \in DOMAIN LowerCase THEN LowerCase[s[k]] ELSE s[k]]

Contains(s, pat) == \E k \in 0..(Len(s) - Len(pat)) : SubSeq(s, k + 1, k + Len(pat)) = pat

\* route.ts line 10: !sender || !body
MissingFieldsMutantSender(sender, body) == sender = <<>>
MissingFields(sender, body) == sender = <<>> \/ body = <<>>

\* route.ts line 15: /debited|spent/i.test(body)
IsTransactionMutantCase(body) ==
  \/ Contains(body, <<"d", "e", "b", "i", "t", "e", "d">>)
  \/ Contains(body, <<"s", "p", "e", "n", "t">>)
IsTransaction(body) ==
  \/ Contains(Lower(body), <<"d", "e", "b", "i", "t", "e", "d">>)
  \/ Contains(Lower(body), <<"s", "p", "e", "n", "t">>)

SmsBodyOtp == <<"O", "T", "P", " ", "1", "2", "3", "4">>
SmsBodySpent == <<"S", "P", "E", "N", "T", " ", "5">>
SmsBodyDebited == <<"R", "s", "5", " ", "d", "e", "b", "i", "t", "e", "d", " ", "a", "c">>
SmsBodies == {<<>>, SmsBodyOtp, SmsBodySpent, SmsBodyDebited}

SmsSenderBank == <<"B", "K">>
SmsSenders == {<<>>, SmsSenderBank}

\* route.ts lines 26-35: add() creates a document under a generated id; the
\* emailId is sms_<Date.now()>_<random>, a fresh value per request
SmsDocId(n) == <<"auto", n>>
SmsEmailId(n) == <<"sms", n>>

SmsDoc(n, sender, body) ==
  [emailId |-> SmsEmailId(n), status |-> "pending", parsedData |-> Absent,
   userEmail |-> UnknownMobile, type |-> "sms", receivedAt |-> MsPerSec,
   contentLen |-> Len(body)]

\* ---- initial state --------------------------------------------------------
InitStores ==
  /\ mailbox = <<>>
  /\ cursor = NoCursor
  /\ staging = <<>>
  /\ syncPc = [r \in Runs |-> "idle"]
  /\ syncSnap = [r \in Runs |-> NoCursor]
  /\ syncPage = [r \in Runs |-> <<>>]
  /\ syncResult = [r \in Runs |-> NoResult]
  /\ syncWrote = [r \in Runs |-> {}]
  /\ procPc = [p \in Procs |-> "idle"]
  /\ procSel = [p \in Procs |-> {}]
  /\ procResp = [p \in Procs |-> <<>>]
  /\ procResult = [p \in Procs |-> NoResult]
  /\ smsCount = 0
  /\ smsReply = NoReply
  /\ smsRequest = NoRequest
  /\ activeStagingId = NoDoc
  /\ formOpen = FALSE
  /\ formItem = NoDoc
  /\ promoted = {}
  /\ now = StartTime
  /\ lastAutoSync = 0
  /\ lastAutoProcess = 0
  /\ syncError = FALSE
  /\ retryPc = "idle"
  /\ ticks = 0
  /\ prevFire = NoFire
  /\ authFailed = FALSE
  /\ lastAutoExtract = 0
  /\ lastSyncedAt = 0

\* the user has consented: a refresh token is stored and the provider accepts it
Init == InitStores /\ token = "valid"

\* an account before its first consent
FreshInit == InitStores /\ token = "none"

\* ---- environment: a message with the label arrives -----------------------
LastDate(box) == IF box = <<>> THEN MsPerSec ELSE box[Len(box)].internalDate

ArriveOne(box, step, pl) ==
  Append(box, [internalDate |-> LastDate(box) + step, payload |-> pl])

RECURSIVE ArriveMany(_, _, _)
ArriveMany(box, n, step) ==
  IF n = 0 THEN box ELSE ArriveMany(ArriveOne(box, step, TRUE), n - 1, step)

Arrive(limit, steps, payloads) ==
  /\ Len(mailbox) < limit
  /\ \E step \in steps, pl \in payloads : mailbox' = ArriveOne(mailbox, step, pl)
  /\ UNCHANGED <<cursor, staging, syncVars, procVars, uiVars, appVars>>

\* more messages than one warm page arrive between two fetches
ArriveBurst(limit, step) ==
  /\ Len(mailbox) + WarmMaxResults + 1 <= limit
  /\ mailbox' = ArriveMany(mailbox, WarmMaxResults + 1, step)
  /\ UNCHANGED <<cursor, staging, syncVars, procVars, uiVars, appVars>>

\* ---- syncEmailsAction ------------------------------------------------------
\* lines 544-559: read the cursor document
SyncCall(r) ==
  /\ syncPc[r] \in {"idle", "crashed"}
  /\ syncPc' = [syncPc EXCEPT ![r] = "list"]
  /\ syncSnap' = [syncSnap EXCEPT ![r] = cursor]
  /\ syncPage' = [syncPage EXCEPT ![r] = <<>>]
  /\ syncResult' = [syncResult EXCEPT ![r] = NoResult]
  /\ syncWrote' = [syncWrote EXCEPT ![r] = {}]

SyncStart(r) ==
  /\ SyncCall(r)
  /\ UNCHANGED <<mailbox, cursor, staging, procVars, uiVars, appVars>>

\* lines 561-600: list, early returns when nothing is new (lastSyncedAt is
\* written, lines 579 and 598)
SyncListMutantNoStamp(r) ==
  /\ syncPc[r] = "list"
  /\ LET page == ListMessages(mailbox, AfterSeconds(syncSnap[r]),
                              MaxResultsFor(syncSnap[r]))
         new == NewMessages(syncSnap[r], page)
     IN /\ syncPage' = [syncPage EXCEPT ![r] = page]
        /\ IF new = <<>>
           THEN /\ syncPc' = [syncPc EXCEPT ![r] = "done"]
                /\ UNCHANGED lastSyncedAt
                /\ syncResult' = [syncResult EXCEPT ![r] =
                                    [success |-> TRUE, count |-> 0]]
           ELSE /\ syncPc' = [syncPc EXCEPT ![r] = "fetch"]
                /\ UNCHANGED <<syncResult, lastSyncedAt>>
  /\ UNCHANGED <<mailbox, cursor, staging, syncSnap, syncWrote, procVars, uiVars,
                 formVars, viewVars>>

SyncList(r) ==
  /\ syncPc[r] = "list"
  /\ LET page == ListMessages(mailbox, AfterSeconds(syncSnap[r]),
                              MaxResultsFor(syncSnap[r]))
         new == NewMessages(syncSnap[r], page)
     IN /\ syncPage' = [syncPage EXCEPT ![r] = page]
        /\ IF new = <<>>
           THEN /\ syncPc' = [syncPc EXCEPT ![r] = "done"]
                /\ lastSyncedAt' = now
                /\ syncResult' = [syncResult EXCEPT ![r] =
                                    [success |-> TRUE, count |-> 0]]
           ELSE /\ syncPc' = [syncPc EXCEPT ![r] = "fetch"]
                /\ UNCHANGED <<syncResult, lastSyncedAt>>
  /\ UNCHANGED <<mailbox, cursor, staging, syncSnap, syncWrote, procVars, uiVars,
                 formVars, viewVars>>

\* lines 605-650: the loop fills the batch, batch.commit() writes it at once
SyncCommit(r) ==
  /\ syncPc[r] = "fetch"
  /\ LET new == NewMessages(syncSnap[r], syncPage[r])
         ids == BatchIds(new, mailbox)
     IN /\ staging' = BatchSet(staging, ids, mailbox)
        /\ syncWrote' = [syncWrote EXCEPT ![r] = {StagingDocId(i, staging) : i \in ids}]
  /\ syncPc' = [syncPc EXCEPT ![r] = "cursor"]
  /\ UNCHANGED <<mailbox, cursor, syncSnap, syncPage, syncResult, procVars,
                 uiVars, appVars>>

\* lines 652-677: cursor write, then the result
SyncCursorMutantEarly(r) ==
  /\ syncPc[r] = "fetch"
  /\ LET new == NewMessages(syncSnap[r], syncPage[r])
     IN /\ cursor' = CursorUpdate(cursor, new, mailbox)
        /\ syncResult' = [syncResult EXCEPT ![r] =
                            [success |-> TRUE, count |-> Len(new)]]
  /\ syncPc' = [syncPc EXCEPT ![r] = "done"]
  /\ lastSyncedAt' = now
  /\ UNCHANGED <<mailbox, staging, syncSnap, syncPage, syncWrote, procVars,
                 uiVars, formVars, viewVars>>
SyncCursor(r) ==
  /\ syncPc[r] = "cursor"
  /\ LET new == NewMessages(syncSnap[r], syncPage[r])
     IN /\ cursor' = CursorUpdate(cursor, new, mailbox)
        /\ syncResult' = [syncResult EXCEPT ![r] =
                            [success |-> TRUE, count |-> Len(new)]]
  /\ syncPc' = [syncPc EXCEPT ![r] = "done"]
  /\ lastSyncedAt' = now
  /\ UNCHANGED <<mailbox, staging, syncSnap, syncPage, syncWrote, procVars,
                 uiVars, formVars, viewVars>>

\* lines 679-682: messages.list, messages.get or batch.commit() rejects
SyncFailMutantAdvance(r) ==
  /\ syncPc[r] \in {"list", "fetch"}
  /\ syncPc' = [syncPc EXCEPT ![r] = "done"]
  /\ syncResult' = [syncResult EXCEPT ![r] = [success |-> FALSE, count |-> -1]]
  /\ cursor' = CursorUpdate(cursor, NewMessages(syncSnap[r], syncPage[r]), mailbox)
  /\ UNCHANGED <<mailbox, staging, syncSnap, syncPage, syncWrote,
                 procVars, uiVars, appVars>>
SyncFail(r) ==
  /\ syncPc[r] \in {"list", "fetch"}
  /\ syncPc' = [syncPc EXCEPT ![r] = "done"]
  /\ syncResult' = [syncResult EXCEPT ![r] = [success |-> FALSE, count |-> -1]]
  /\ UNCHANGED <<mailbox, cursor, staging, syncSnap, syncPage, syncWrote,
                 procVars, uiVars, appVars>>

\* lines 665, 679-682: cursorDocRef.set() rejects after the batch commit
SyncCursorFail(r) ==
  /\ syncPc[r] = "cursor"
  /\ syncPc' = [syncPc EXCEPT ![r] = "done"]
  /\ syncResult' = [syncResult EXCEPT ![r] = [success |-> FALSE, count |-> -1]]
  /\ UNCHANGED <<mailbox, cursor, staging, syncSnap, syncPage, syncWrote,
                 procVars, uiVars, appVars>>

\* the server action dies between batch.commit() and cursorDocRef.set()
SyncCrash(r) ==
  /\ syncPc[r] = "cursor"
  /\ syncPc' = [syncPc EXCEPT ![r] = "crashed"]
  /\ UNCHANGED <<mailbox, cursor, staging, syncSnap, syncPage, syncResult,
                 syncWrote, procVars, uiVars, appVars>>

\* the caller has consumed the SyncResult
SyncDone(r) ==
  /\ syncPc[r] = "done"
  /\ syncPc' = [syncPc EXCEPT ![r] = "idle"]
  /\ syncSnap' = [syncSnap EXCEPT ![r] = NoCursor]
  /\ syncPage' = [syncPage EXCEPT ![r] = <<>>]
  /\ syncResult' = [syncResult EXCEPT ![r] = NoResult]
  /\ syncWrote' = [syncWrote EXCEPT ![r] = {}]

SyncReturn(r) ==
  /\ SyncDone(r)
  /\ UNCHANGED <<mailbox, cursor, staging, procVars, uiVars, appVars>>

\* ---- processStagingAction ---------------------------------------------------
\* document ids in the order of the query (by document name)
DocBefore(a, b) == (a[1] = "auto" /\ b[1] = "gm") \/ (a[1] = b[1] /\ a[2] < b[2])

\* lines 693-697: where userEmail == .. where status == 'pending' limit(10)
PendingOf(stg, email) ==
  {d \in DOMAIN stg : stg[d].userEmail = email /\ stg[d].status = "pending"}

SelectPendingMutantNoLimit(stg, email) == PendingOf(stg, email)

SelectPending(stg, email) ==
  LET all == PendingOf(stg, email)
  IN {d \in all : Cardinality({e \in all : DocBefore(e, d)}) < ProcessLimit}

\* lines 710-715: documents that get a model call
CalledMutantAll(stg, sel) == sel
Called(stg, sel) == {d \in sel : stg[d].contentLen >= MinContentLen}

\* lines 693-762: the query, then one model call per selected document; the
\* calls read no shared document, their responses are drawn with the query
ProcCallFor(p, email, responses) ==
  /\ procPc[p] = "idle"
  /\ LET sel == SelectPending(staging, email)
     IN /\ procSel' = [procSel EXCEPT ![p] = sel]
        /\ IF sel = {}
           THEN /\ procPc' = [procPc EXCEPT ![p] = "done"]
                /\ procResp' = [procResp EXCEPT ![p] = <<>>]
                /\ procResult' = [procResult EXCEPT ![p] =
                                    [success |-> TRUE, count |-> 0]]
           ELSE /\ procPc' = [procPc EXCEPT ![p] = "commit"]
                /\ \E f \in [Called(staging, sel) -> responses] :
                     procResp' = [procResp EXCEPT ![p] = f]
                /\ UNCHANGED procResult

\* the callers of the sync view pass user.email
ProcCall(p, responses) == ProcCallFor(p, User, responses)

ProcSelect(p, responses) ==
  /\ ProcCall(p, responses)
  /\ UNCHANGED <<mailbox, cursor, staging, syncVars, uiVars, appVars>>

\* processStagingAction(userEmail) called with the account key email
ProcSelectFor(p, email, responses) ==
  /\ ProcCallFor(p, email, responses)
  /\ UNCHANGED <<mailbox, cursor, staging, syncVars, uiVars, appVars>>

\* line 764: batch.commit(); an update of a document that no longer exists
\* rejects the whole batch (lines 767-770)
ProcCommitMutantAbort(p) ==
  /\ procPc[p] = "commit"
  /\ LET ups == procResp[p]
     IN IF /\ DOMAIN ups \subseteq DOMAIN staging
           /\ \A d \in DOMAIN ups : ItemUpdate(ups[d]).status = "review"
        THEN /\ staging' = [d \in DOMAIN staging |->
                              IF d \in DOMAIN ups
                              THEN ApplyUpdate(staging[d], ItemUpdate(ups[d]))
                              ELSE staging[d]]
             /\ procResult' = [procResult EXCEPT ![p] =
                  [success |-> TRUE, count |-> Cardinality(DOMAIN ups)]]
        ELSE /\ UNCHANGED staging
             /\ procResult' = [procResult EXCEPT ![p] =
                                 [success |-> FALSE, count |-> -1]]
  /\ procPc' = [procPc EXCEPT ![p] = "done"]
  /\ UNCHANGED <<mailbox, cursor, syncVars, procSel, procResp, uiVars, appVars>>
ProcCommit(p) ==
  /\ procPc[p] = "commit"
  /\ LET ups == procResp[p]
     IN IF DOMAIN ups \subseteq DOMAIN staging
        THEN /\ staging' = [d \in DOMAIN staging |->
                              IF d \in DOMAIN ups
                              THEN ApplyUpdate(staging[d], ItemUpdate(ups[d]))
                              ELSE staging[d]]
             /\ procResult' = [procResult EXCEPT ![p] =
                  [success |-> TRUE,
                   count |-> Cardinality({d \in DOMAIN ups :
                                            ItemUpdate(ups[d]).status = "review"})]]
        ELSE /\ UNCHANGED staging
             /\ procResult' = [procResult EXCEPT ![p] =
                                 [success |-> FALSE, count |-> -1]]
  /\ procPc' = [procPc EXCEPT ![p] = "done"]
  /\ UNCHANGED <<mailbox, cursor, syncVars, procSel, procResp, uiVars, appVars>>

\* lines 767-770: the query or the commit rejects
ProcFail(p) ==
  /\ procPc[p] = "commit"
  /\ procPc' = [procPc EXCEPT ![p] = "done"]
  /\ procResult' = [procResult EXCEPT ![p] = [success |-> FALSE, count |-> -1]]
  /\ UNCHANGED <<mailbox, cursor, staging, syncVars, procSel, procResp, uiVars, appVars>>

ProcReturn(p) ==
  /\ procPc[p] = "done"
  /\ procPc' = [procPc EXCEPT ![p] = "idle"]
  /\ procSel' = [procSel EXCEPT ![p] = {}]
  /\ procResp' = [procResp EXCEPT ![p] = <<>>]
  /\ procResult' = [procResult EXCEPT ![p] = NoResult]
  /\ UNCHANGED <<mailbox, cursor, staging, syncVars, uiVars, appVars>>

\* ---- SMS webhook: POST --------------------------------------------------------
SmsPostUpTo(limit, senders, bodies) ==
  /\ \E sender \in senders, body \in bodies :
       /\ smsRequest' = [sender |-> sender, body |-> body]
       /\ IF MissingFields(sender, body)
          THEN /\ smsReply' = [status |-> 400, success |-> FALSE]
               /\ UNCHANGED <<staging, smsCount>>
          ELSE IF ~IsTransaction(body)
          THEN /\ smsReply' = [status |-> 200, success |-> TRUE]
               /\ UNCHANGED <<staging, smsCount>>
          ELSE /\ smsCount < limit
               /\ smsCount' = smsCount + 1
               /\ staging' = [d \in DOMAIN staging \cup {SmsDocId(smsCount + 1)} |->
                                IF d = SmsDocId(smsCount + 1)
                                THEN SmsDoc(smsCount + 1, sender, body)
                                ELSE staging[d]]
               /\ smsReply' = [status |-> 200, success |-> TRUE]
  /\ UNCHANGED <<mailbox, cursor, syncVars, procVars, activeStagingId, appVars>>

SmsPost(senders, bodies) == SmsPostUpTo(MaxSms, senders, bodies)

\* ---- sync view (GmailSyncModal) and Dashboard --------------------------------
\* lines 47-53: the items the view lists
Listed(stg) == {d \in DOMAIN stg : stg[d].userEmail \in {User, UnknownMobile}}

\* lines 104-112, 405: Retry button of an item with status error; the call of
\* processStagingAction that follows (line 115) is the run "handler"
RetryUpdateMutantKeepStatus(d) ==
  /\ d \in Listed(staging)
  /\ staging[d].status = "error"
  /\ staging' = [staging EXCEPT ![d] = [@ EXCEPT !.parsedData = NullField]]
RetryUpdate(d) ==
  /\ d \in Listed(staging)
  /\ staging[d].status = "error"
  /\ staging' = [staging EXCEPT ![d] = [@ EXCEPT !.status = "pending",
                                                   !.parsedData = NullField]]

Retry(d) ==
  /\ RetryUpdate(d)
  /\ UNCHANGED <<mailbox, cursor, syncVars, procVars, uiVars, appVars>>

\* lines 125-129: Delete button
DeleteMutantPendingOnly(d) ==
  /\ d \in Listed(staging)
  /\ staging[d].status = "pending"
  /\ staging' = [e \in DOMAIN staging \ {d} |-> staging[e]]
  /\ UNCHANGED <<mailbox, cursor, syncVars, procVars, uiVars, appVars>>
Delete(d) ==
  /\ d \in Listed(staging)
  /\ staging' = [e \in DOMAIN staging \ {d} |-> staging[e]]
  /\ UNCHANGED <<mailbox, cursor, syncVars, procVars, uiVars, appVars>>

\* Dashboard lines 443-448: Review button of an item with status review
Review(d) ==
  /\ ~formOpen
  /\ d \in Listed(staging)
  /\ staging[d].status = "review"
  /\ Truthy(staging[d].parsedData)
  /\ activeStagingId' = d
  /\ formOpen' = TRUE
  /\ formItem' = d
  /\ UNCHANGED <<mailbox, cursor, staging, syncVars, procVars, smsCount, smsReply,
                 smsRequest, promoted, trigVars>>

\* Dashboard lines 716-722: the add button opens an empty expense form
OpenForm ==
  /\ ~formOpen
  /\ formOpen' = TRUE
  /\ formItem' = NoDoc
  /\ UNCHANGED <<mailbox, cursor, staging, syncVars, procVars, uiVars, promoted,
                 trigVars>>

\* Dashboard lines 745-749: the expense form is closed without a save
CloseForm ==
  /\ formOpen
  /\ formOpen' = FALSE
  /\ formItem' = NoDoc
  /\ UNCHANGED <<mailbox, cursor, staging, syncVars, procVars, uiVars, promoted,
                 trigVars>>

\* the expense form has written the expense; it then calls onSuccess and
\* onClose (Dashboard lines 745-755)
SaveSucceeded == formOpen

\* Dashboard lines 450-461: handleAddSuccess, called by the form after a save
AddSuccess ==
  /\ SaveSucceeded
  /\ staging' = IF activeStagingId # NoDoc
                THEN [e \in DOMAIN staging \ {activeStagingId} |-> staging[e]]
                ELSE staging
  /\ activeStagingId' = NoDoc
  /\ formOpen' = FALSE
  /\ formItem' = NoDoc
  /\ promoted' = IF formItem # NoDoc THEN promoted \cup {formItem} ELSE promoted
  /\ UNCHANGED <<mailbox, cursor, syncVars, procVars, smsCount, smsReply,
                 smsRequest, trigVars>>

\* ---- triggers of the sync view ------------------------------------------------
\* the browser clock moves on
Tick(steps) ==
  /\ ticks < MaxTicks
  /\ \E s \in steps : now' = now + s
  /\ ticks' = ticks + 1
  /\ UNCHANGED <<lastSyncedAt, mailbox, cursor, staging, syncVars, procVars, uiVars, formVars,
                 lastAutoSync, lastAutoProcess, token, syncError, retryPc,
                 prevFire, authFailed, lastAutoExtract>>

\* GmailSyncModal line 146
AutoSyncDueMutantShort(t, last) == t - last > MsPerSec
AutoSyncDue(t, last) == t - last > AutoSyncCooldown

\* GmailSyncModal line 182
AutoProcessDue(t, last) == t - last > AutoProcessCooldown

\* gmailSync lines 519-540 with a null access token: the stored refresh token
\* is exchanged; when the provider rejects it the action returns a failure
SyncCallStoredMutantStamp(r) ==
  IF token = "valid"
  THEN SyncCall(r)
  ELSE /\ syncPc[r] = "idle"
       /\ syncPc' = [syncPc EXCEPT ![r] = "list"]
       /\ syncSnap' = [syncSnap EXCEPT ![r] = cursor]
       /\ UNCHANGED <<syncResult, syncPage, syncWrote>>
SyncCallStored(r) ==
  IF token = "valid"
  THEN SyncCall(r)
  ELSE /\ syncPc[r] = "idle"
       /\ syncPc' = [syncPc EXCEPT ![r] = "done"]
       /\ syncResult' = [syncResult EXCEPT ![r] = [success |-> FALSE, count |-> -1]]
       /\ UNCHANGED <<syncSnap, syncPage, syncWrote>>

\* GmailSyncModal lines 134-169: the view opens, checkAutoSyncStatusAction
\* reports a stored refresh token (isEnabled), the rate limit is read and, when
\* it has passed, written before syncEmailsAction is called. A firing while
\* the previous automatic fetch is still running after the whole cooldown is
\* not represented.
AutoSyncFireMutantLate ==
  /\ token # "none"
  /\ IF AutoSyncDue(now, lastAutoSync)
     THEN /\ syncPc["auto"] = "idle"
          /\ UNCHANGED lastAutoSync
          /\ prevFire' = [at |-> now, called |-> TRUE, reset |-> FALSE]
          /\ SyncCallStored("auto")
          /\ authFailed' = (authFailed \/ token # "valid")
     ELSE /\ prevFire' = [at |-> now, called |-> FALSE, reset |-> prevFire.reset]
          /\ UNCHANGED <<lastAutoSync, syncVars, authFailed>>
  /\ UNCHANGED <<lastSyncedAt, mailbox, cursor, staging, procVars, uiVars, formVars, now,
                 lastAutoProcess, token, syncError, retryPc, ticks, lastAutoExtract>>
AutoSyncFire ==
  /\ token # "none"
  /\ IF AutoSyncDue(now, lastAutoSync)
     THEN /\ syncPc["auto"] = "idle"
          /\ lastAutoSync' = now
          /\ prevFire' = [at |-> now, called |-> TRUE, reset |-> FALSE]
          /\ SyncCallStored("auto")
          /\ authFailed' = (authFailed \/ token # "valid")
     ELSE /\ prevFire' = [at |-> now, called |-> FALSE, reset |-> prevFire.reset]
          /\ UNCHANGED <<lastAutoSync, syncVars, authFailed>>
  /\ UNCHANGED <<lastSyncedAt, mailbox, cursor, staging, procVars, uiVars, formVars, now,
                 lastAutoProcess, token, syncError, retryPc, ticks, lastAutoExtract>>

\* GmailSyncModal lines 151-164: the automatic fetch has returned; new items
\* are sent to extraction, a failure result is not looked at
AutoSyncThen(responses) ==
  /\ syncPc["auto"] = "done"
  /\ IF syncResult["auto"].success /\ syncResult["auto"].count > 0
     THEN /\ ProcCall("followup", responses)
          /\ lastAutoExtract' = now
     ELSE UNCHANGED <<procVars, lastAutoExtract>>
  /\ SyncDone("auto")
  /\ UNCHANGED <<lastSyncedAt, mailbox, cursor, staging, uiVars, formVars, now, lastAutoSync,
                 lastAutoProcess, token, syncError, retryPc, ticks, prevFire,
                 authFailed>>

\* GmailSyncModal lines 174-195: the listed items changed, one is pending and
\* the debounce has passed
AutoProcessFireOnMutantSingleFlight(p, responses) ==
  /\ \A q \in EffectRuns : procPc[q] = "idle"
  /\ \E d \in Listed(staging) : staging[d].status = "pending"
  /\ AutoProcessDue(now, lastAutoProcess)
  /\ lastAutoProcess' = now
  /\ ProcCall(p, responses)
  /\ lastAutoExtract' = now
  /\ UNCHANGED <<lastSyncedAt, mailbox, cursor, staging, syncVars, uiVars, formVars, now,
                 lastAutoSync, token, syncError, retryPc, ticks, prevFire,
                 authFailed>>

AutoProcessFireOn(p, responses) ==
  /\ \E d \in Listed(staging) : staging[d].status = "pending"
  /\ AutoProcessDue(now, lastAutoProcess)
  /\ lastAutoProcess' = now
  /\ ProcCall(p, responses)
  /\ lastAutoExtract' = now
  /\ UNCHANGED <<lastSyncedAt, mailbox, cursor, staging, syncVars, uiVars, formVars, now,
                 lastAutoSync, token, syncError, retryPc, ticks, prevFire,
                 authFailed>>

AutoProcessFire(responses) == AutoProcessFireOn("effect", responses)

\* GmailSyncModal lines 197-203, 289: Sync Now, disabled while syncing
HandleSyncNow ==
  /\ syncPc["manual"] = "idle"
  /\ procPc["manual"] = "idle"
  /\ syncError' = FALSE
  /\ SyncCallStored("manual")
  /\ UNCHANGED <<lastSyncedAt, mailbox, cursor, staging, procVars, uiVars, formVars, now,
                 lastAutoSync, lastAutoProcess, token, retryPc, ticks, prevFire,
                 authFailed, lastAutoExtract>>

\* GmailSyncModal lines 204-225: syncEmailsAction has returned to handleSyncNow
SyncNowThen(responses) ==
  /\ syncPc["manual"] = "done"
  /\ IF syncResult["manual"].success
     THEN /\ lastAutoSync' = now
          /\ prevFire' = [prevFire EXCEPT !.reset = TRUE]
          /\ ProcCall("manual", responses)
          /\ UNCHANGED syncError
     ELSE /\ syncError' = TRUE
          /\ UNCHANGED <<lastAutoSync, prevFire, procVars>>
  /\ SyncDone("manual")
  /\ UNCHANGED <<lastSyncedAt, mailbox, cursor, staging, uiVars, formVars, now,
                 lastAutoProcess, token, retryPc, ticks, authFailed,
                 lastAutoExtract>>

\* GmailSyncModal lines 104-111: Retry button, the update of the item
HandleRetry(d) ==
  /\ retryPc = "idle"
  /\ RetryUpdate(d)
  /\ retryPc' = "updated"
  /\ UNCHANGED <<lastSyncedAt, mailbox, cursor, syncVars, procVars, uiVars, formVars, now,
                 lastAutoSync, lastAutoProcess, token, syncError, ticks,
                 prevFire, authFailed, lastAutoExtract>>

\* GmailSyncModal lines 112-119: handleRetry goes on to processStagingAction
RetryThen(responses) ==
  /\ retryPc = "updated"
  /\ ProcCall("handler", responses)
  /\ retryPc' = "idle"
  /\ UNCHANGED <<lastSyncedAt, mailbox, cursor, staging, syncVars, uiVars, formVars, now,
                 lastAutoSync, lastAutoProcess, token, syncError, ticks,
                 prevFire, authFailed, lastAutoExtract>>

\* the provider revokes the refresh token; user_secrets keeps it
TokenRevoke ==
  /\ token = "valid"
  /\ token' = "rejected"
  /\ UNCHANGED <<lastSyncedAt, mailbox, cursor, staging, syncVars, procVars, uiVars, formVars,
                 now, lastAutoSync, lastAutoProcess, syncError, retryPc, ticks,
                 prevFire, authFailed, lastAutoExtract>>

\* gmailSync lines 454-488: the user consents again, a fresh refresh token is stored
Reconsent ==
  /\ token = "rejected"
  /\ token' = "valid"
  /\ authFailed' = FALSE
  /\ UNCHANGED <<lastSyncedAt, mailbox, cursor, staging, syncVars, procVars, uiVars, formVars,
                 now, lastAutoSync, lastAutoProcess, syncError, retryPc, ticks,
                 prevFire, lastAutoExtract>>

\* gmailSync lines 454-488: the authorization code is exchanged and the
\* refresh token of the response is stored with set(..., {merge: true}); a
\* response without refresh token leaves the stored one (the set of an
\* undefined field is refused or the field is left out, line 479)
RefreshTokens == {"fresh", "absent"}

ExchangeAndStoreMutantClear(rts) ==
  /\ \E rt \in rts :
       /\ token' = IF rt = "fresh" THEN "valid" ELSE "none"
       /\ authFailed' = IF rt = "fresh" THEN FALSE ELSE authFailed
  /\ UNCHANGED <<lastSyncedAt, mailbox, cursor, staging, syncVars, procVars, uiVars,
                 formVars, now, lastAutoSync, lastAutoProcess, syncError, retryPc,
                 ticks, prevFire, lastAutoExtract>>

ExchangeAndStore(rts) ==
  /\ \E rt \in rts :
       /\ token' = IF rt = "fresh" THEN "valid" ELSE token
       /\ authFailed' = IF rt = "fresh" THEN FALSE ELSE authFailed
  /\ UNCHANGED <<lastSyncedAt, mailbox, cursor, staging, syncVars, procVars, uiVars,
                 formVars, now, lastAutoSync, lastAutoProcess, syncError, retryPc,
                 ticks, prevFire, lastAutoExtract>>

\* checkAutoSyncStatusAction line 502: !!data?.gmail_refresh_token
IsEnabled(tok) == tok # "none"

\* ---- specifications ---------------------------------------------------------
\* two fetch runs in flight together
FetchNext ==
  \/ Arrive(MaxMsgs, {400, 1000}, BOOLEAN)
  \/ \E r \in Runs : SyncStart(r)
  \/ \E r \in Runs : SyncList(r)
  \/ \E r \in Runs : SyncCommit(r)
  \/ \E r \in Runs : SyncCursor(r)
  \/ \E r \in Runs : SyncFail(r)
  \/ \E r \in Runs : SyncCursorFail(r)
  \/ \E r \in Runs : SyncCrash(r)
  \/ \E r \in Runs : SyncReturn(r)

FetchSpec == Init /\ [][FetchNext]_vars

\* fetch, extraction, SMS webhook, retry and delete with one fetch run; a run
\* that fails before its commit writes nothing and is left to FetchSpec
Next ==
  \/ Arrive(MaxPipeMsgs, {1000}, {TRUE})
  \/ SyncStart("manual")
  \/ SyncList("manual")
  \/ SyncCommit("manual")
  \/ SyncCursor("manual")
  \/ SyncCursorFail("manual")
  \/ SyncCrash("manual")
  \/ SyncReturn("manual")
  \/ ProcSelect("handler", FewResponses)
  \/ ProcCommit("handler")
  \/ ProcFail("handler")
  \/ ProcReturn("handler")
  \/ SmsPost({SmsSenderBank}, {SmsBodyDebited})
  \/ \E d \in DOMAIN staging : Retry(d)
  \/ \E d \in DOMAIN staging : Delete(d)

Spec == Init /\ [][Next]_vars

\* the pipeline with the promotion of reviewed items
PromoteNext ==
  \/ Next
  \/ \E d \in DOMAIN staging : Review(d)
  \/ AddSuccess

PromoteSpec == Init /\ [][PromoteNext]_vars

\* one fetch run, more messages than a warm page between two fetches
BurstNext ==
  \/ /\ Len(mailbox) < MaxLead \/ Len(mailbox) > WarmMaxResults
     /\ Arrive(MaxBurstMsgs, {1000}, BOOLEAN)
  \/ ArriveBurst(MaxBurstMsgs, 1000)
  \/ SyncStart("manual")
  \/ SyncList("manual")
  \/ SyncCommit("manual")
  \/ SyncCursor("manual")
  \/ SyncReturn("manual")

BurstSpec == Init /\ [][BurstNext]_vars

\* fetches keep being invoked and succeed
FairBurstSpec ==
  /\ BurstSpec
  /\ WF_vars(SyncStart("manual"))
  /\ WF_vars(SyncList("manual"))
  /\ WF_vars(SyncCommit("manual"))
  /\ WF_vars(SyncCursor("manual"))
  /\ WF_vars(SyncReturn("manual"))

\* one fetch run and one extraction run over every response text
ExtractNext ==
  \/ Arrive(MaxPipeMsgs, {1000}, {TRUE})
  \/ SyncStart("manual")
  \/ SyncList("manual")
  \/ SyncCommit("manual")
  \/ SyncCursor("manual")
  \/ SyncReturn("manual")
  \/ ProcSelect("handler", Responses)
  \/ ProcCommit("handler")
  \/ ProcFail("handler")
  \/ ProcReturn("handler")
  \/ \E d \in DOMAIN staging : Retry(d)
  \/ \E d \in DOMAIN staging : Delete(d)

ExtractSpec == Init /\ [][ExtractNext]_vars

\* extraction runs whose batch the store accepts: no document is deleted and
\* no commit is rejected
IsolationNext ==
  \/ Arrive(MaxPipeMsgs, {1000}, {TRUE})
  \/ SyncStart("manual")
  \/ SyncList("manual")
  \/ SyncCommit("manual")
  \/ SyncCursor("manual")
  \/ SyncReturn("manual")
  \/ ProcSelect("handler", Responses)
  \/ ProcCommit("handler")
  \/ ProcReturn("handler")
  \/ \E d \in DOMAIN staging : Retry(d)

IsolationSpec == Init /\ [][IsolationNext]_vars

\* the sync view is open: automatic and manual fetches and the clock
TickSteps == {MsPerSec, AutoSyncCooldown}

CooldownNext ==
  \/ Arrive(MaxTrigMsgs, {1000}, {TRUE})
  \/ Tick(TickSteps)
  \/ AutoSyncFire
  \/ AutoSyncThen({Reply(TxtObject)})
  \/ HandleSyncNow
  \/ SyncNowThen({Reply(TxtObject)})
  \/ \E r \in Runs : SyncList(r)
  \/ \E r \in Runs : SyncCommit(r)
  \/ \E r \in Runs : SyncCursor(r)
  \/ \E p \in {"followup", "manual"} : ProcCommit(p)
  \/ \E p \in {"followup", "manual"} : ProcReturn(p)

CooldownSpec == Init /\ [][CooldownNext]_vars

\* the sync view is open: the automatic callers of the extraction
DebounceSteps == {MsPerSec, AutoProcessCooldown}

DebounceNext ==
  \/ Arrive(MaxTrigMsgs, {1000}, {TRUE})
  \/ Tick(DebounceSteps)
  \/ AutoSyncFire
  \/ AutoSyncThen({Thrown})
  \/ AutoProcessFire({Thrown})
  \/ SyncList("auto")
  \/ SyncCommit("auto")
  \/ SyncCursor("auto")
  \/ \E p \in {"effect", "followup"} : ProcCommit(p)
  \/ \E p \in {"effect", "followup"} : ProcReturn(p)
  \/ \E d \in DOMAIN staging : HandleRetry(d)
  \/ RetryThen({Thrown})
  \/ ProcCommit("handler")
  \/ ProcReturn("handler")

DebounceSpec == Init /\ [][DebounceNext]_vars

\* retry of an item whose extraction failed
RetryResponses == {Reply(TxtObject), Reply(TxtNull), Thrown}

RetryNext ==
  \/ Arrive(MaxPipeMsgs, {1000}, {TRUE})
  \/ HandleSyncNow
  \/ SyncNowThen(RetryResponses)
  \/ SyncList("manual")
  \/ SyncCommit("manual")
  \/ SyncCursor("manual")
  \/ \E p \in {"manual", "handler"} : ProcCommit(p)
  \/ \E p \in {"manual", "handler"} : ProcReturn(p)
  \/ \E d \in DOMAIN staging : HandleRetry(d)
  \/ RetryThen(RetryResponses)

RetrySpec == Init /\ [][RetryNext]_vars

\* the same view with a refresh token the provider may revoke
AuthNext ==
  \/ Arrive(MaxTrigMsgs, {1000}, {TRUE})
  \/ Tick(TickSteps)
  \/ AutoSyncFire
  \/ AutoSyncThen({Reply(TxtObject)})
  \/ SyncList("auto")
  \/ SyncCommit("auto")
  \/ SyncCursor("auto")
  \/ ProcCommit("followup")
  \/ ProcReturn("followup")
  \/ TokenRevoke
  \/ Reconsent

AuthSpec == Init /\ [][AuthNext]_vars

\* the stored credential from before the first consent on: consent, revocation,
\* unattended fetches, extraction and SMS posts
SecretNext ==
  \/ Arrive(MaxTrigMsgs, {1000}, {TRUE})
  \/ ExchangeAndStore(RefreshTokens)
  \/ TokenRevoke
  \/ HandleSyncNow
  \/ SyncNowThen({Reply(TxtObject)})
  \/ SyncList("manual")
  \/ SyncCommit("manual")
  \/ SyncCursor("manual")
  \/ SyncFail("manual")
  \/ ProcCommit("manual")
  \/ ProcReturn("manual")
  \/ SmsPost({SmsSenderBank}, {SmsBodyOtp, SmsBodySpent})

SecretSpec == FreshInit /\ [][SecretNext]_vars

\* the SMS webhook next to a fetch and an extraction of the signed-in account
SmsNext ==
  \/ Arrive(MaxTrigMsgs, {1000}, {TRUE})
  \/ SyncStart("manual")
  \/ SyncList("manual")
  \/ SyncCommit("manual")
  \/ SyncCursor("manual")
  \/ SyncReturn("manual")
  \/ ProcSelect("handler", {Reply(TxtObject)})
  \/ ProcCommit("handler")
  \/ ProcReturn("handler")
  \/ SmsPost(SmsSenders, SmsBodies)

SmsSpec == Init /\ [][SmsNext]_vars

\* the sync view stays open while SMS and email items are staged: the
\* auto-process effect and the runs it starts (their model calls fail, the
\* calls of the manual run answer)
SmsPipeNext ==
  \/ Arrive(MaxTrigMsgs, {1000}, {TRUE})
  \/ HandleSyncNow
  \/ SyncNowThen({Reply(TxtObject)})
  \/ SyncList("manual")
  \/ SyncCommit("manual")
  \/ SyncCursor("manual")
  \/ ProcCommit("manual")
  \/ ProcReturn("manual")
  \/ SmsPost({SmsSenderBank}, {SmsBodyDebited})
  \/ Tick(DebounceSteps)
  \/ AutoProcessFire({Thrown})
  \/ ProcCommit("effect")
  \/ ProcReturn("effect")

SmsPipeSpec == Init /\ [][SmsPipeNext]_vars

\* an extraction call of the auto-process effect that never resolves: the run
\* "effect" has no commit and no return here
StuckNext ==
  \/ Arrive(MaxTrigMsgs, {1000}, {TRUE})
  \/ HandleSyncNow
  \/ SyncNowThen({Reply(TxtObject)})
  \/ SyncList("manual")
  \/ SyncCommit("manual")
  \/ SyncCursor("manual")
  \/ ProcCommit("manual")
  \/ ProcReturn("manual")
  \/ SmsPost({SmsSenderBank}, {SmsBodyDebited})
  \/ Tick(DebounceSteps)
  \/ AutoProcessFireOn("effect", {Reply(TxtObject)})
  \/ AutoProcessFireOn("again", {Reply(TxtObject)})
  \/ ProcCommit("again")
  \/ ProcReturn("again")

StuckSpec == Init /\ [][StuckNext]_vars

LongSms(stg) ==
  {d \in DOMAIN stg : stg[d].type = "sms" /\ stg[d].contentLen >= MinContentLen}

\* more pending items of one account key than one extraction run selects,
\* some of them with short content, next to an item of the other key
BatchNext ==
  \/ Arrive(MaxTrigMsgs, {1000}, {TRUE})
  \/ SyncStart("manual")
  \/ SyncList("manual")
  \/ SyncCommit("manual")
  \/ SyncCursor("manual")
  \/ SyncReturn("manual")
  \/ SmsPostUpTo(MaxBatchSms, {SmsSenderBank}, {SmsBodySpent})
  \/ /\ Cardinality(LongSms(staging)) < MaxLongSms
     /\ SmsPostUpTo(MaxBatchSms, {SmsSenderBank}, {SmsBodyDebited})
  \/ \E k \in AccountKeys : ProcSelectFor("handler", k, {Reply(TxtObject)})
  \/ ProcCommit("handler")
  \/ ProcReturn("handler")

BatchSpec == Init /\ [][BatchNext]_vars

\* the items of one account key and the extraction runs for that key; the
\* model call of a selected item is rejected, which moves the item to error
\* in a run that returns success
StarveNext ==
  \/ SmsPostUpTo(MaxBatchSms, {SmsSenderBank}, {SmsBodySpent})
  \/ /\ Cardinality(LongSms(staging)) < MaxLongSms
     /\ SmsPostUpTo(MaxBatchSms, {SmsSenderBank}, {SmsBodyDebited})
  \/ ProcSelectFor("handler", UnknownMobile, {Thrown})
  \/ ProcCommit("handler")
  \/ ProcReturn("handler")

StarveSpec == Init /\ [][StarveNext]_vars

\* extraction runs keep being invoked for the account key and complete
FairStarveSpec ==
  /\ StarveSpec
  /\ WF_vars(ProcSelectFor("handler", UnknownMobile, {Thrown}))
  /\ WF_vars(ProcCommit("handler"))
  /\ WF_vars(ProcReturn("handler"))

\* the effect fires whenever its debounce allows and its runs go on
FairSmsPipeSpec ==
  /\ SmsPipeSpec
  /\ WF_vars(Tick(DebounceSteps))
  /\ WF_vars(AutoProcessFire({Thrown}))
  /\ WF_vars(ProcCommit("effect"))
  /\ WF_vars(ProcReturn("effect"))

\* the expense form of the Dashboard: review, add, close, save
FormNext ==
  \/ Arrive(MaxTrigMsgs, {1000}, {TRUE})
  \/ SyncStart("manual")
  \/ SyncList("manual")
  \/ SyncCommit("manual")
  \/ SyncCursor("manual")
  \/ SyncReturn("manual")
  \/ ProcSelect("handler", {Reply(TxtObject)})
  \/ ProcCommit("handler")
  \/ ProcReturn("handler")
  \/ \E d \in DOMAIN staging : Review(d)
  \/ OpenForm
  \/ CloseForm
  \/ AddSuccess

FormSpec == Init /\ [][FormNext]_vars

\* ---- steps named by the properties -------------------------------------------
CommitStep(r) == syncPc[r] = "fetch" /\ syncPc'[r] = "cursor"
CursorStep(r) == syncPc[r] = "cursor" /\ syncPc'[r] = "done" /\ syncResult'[r].success
ListStep(r) == syncPc[r] = "list" /\ syncPc'[r] # "list"

FoundAt(page, id, k) ==
  /\ k + 1 \in DOMAIN page
  /\ page[k + 1] = id
  /\ \A j \in 1..k : page[j] # id

NotInPage(page, id) == \A j \in DOMAIN page : page[j] # id

\* ---- C2 ----------------------------------------------------------------------
\* C2 as stated: a fetch with a cursor whose watermark id is at index k of the
\* page writes exactly the k items of the entries at indices [0, k), each
\* pending, and nothing else; with k = 0 it stages nothing.
WatermarkFoundStagesK ==
  [][\A r \in Runs : \A k \in 0..Len(syncPage'[r]) :
       (syncSnap[r].exists /\ FoundAt(syncPage'[r], syncSnap[r].last_entry, k))
       => /\ (ListStep(r) /\ k = 0)
               => /\ syncPc'[r] = "done"
                  /\ syncResult'[r] = [success |-> TRUE, count |-> 0]
                  /\ staging' = staging
          /\ CommitStep(r)
               => LET S == {MsgDocId(syncPage[r][j]) : j \in 1..k}
                  IN /\ syncWrote'[r] = S
                     /\ Cardinality(S) = k
                     /\ \A d \in S : d \in DOMAIN staging' /\ staging'[d].status = "pending"
                     /\ DOMAIN staging' = DOMAIN staging \cup S
                     /\ \A d \in DOMAIN staging \ S : staging'[d] = staging[d]]_vars

\* C2 amended: the run writes one pending item for each entry at indices
\* [0, k) for which messages.get returned a payload, and nothing else; with
\* k = 0 it stages nothing.
WatermarkFoundStagesPayloads ==
  [][\A r \in Runs : \A k \in 0..Len(syncPage'[r]) :
       (syncSnap[r].exists /\ FoundAt(syncPage'[r], syncSnap[r].last_entry, k))
       => /\ (ListStep(r) /\ k = 0)
               => /\ syncPc'[r] = "done"
                  /\ syncResult'[r] = [success |-> TRUE, count |-> 0]
                  /\ staging' = staging
          /\ CommitStep(r)
               => LET S == {MsgDocId(syncPage[r][j]) :
                              j \in {i \in 1..k : mailbox[syncPage[r][i]].payload}}
                  IN /\ syncWrote'[r] = S
                     /\ Cardinality(S) <= k
                     /\ \A d \in S : d \in DOMAIN staging' /\ staging'[d].status = "pending"
                     /\ DOMAIN staging' = DOMAIN staging \cup S
                     /\ \A d \in DOMAIN staging \ S : staging'[d] = staging[d]]_vars

\* a run has committed with the watermark at index 2 of a page of three, one
\* of the two newer entries without a payload
WatermarkAtTwo ==
  \E r \in Runs :
    /\ syncPc[r] = "cursor"
    /\ syncSnap[r].exists
    /\ FoundAt(syncPage[r], syncSnap[r].last_entry, 2)
    /\ Cardinality(syncWrote[r]) = 1
    /\ syncWrote[r] \subseteq DOMAIN staging

NoMessageMissed ==
  \A i \in 1..MaxBurstMsgs :
    [](((i \in DOMAIN mailbox /\ cursor.exists /\ i > cursor.last_entry)
          /\ mailbox[i].payload)
       => <>(MsgDocId(i) \in DOMAIN staging))

\* ---- C5 ----------------------------------------------------------------------
\* C5: every cursor write stores a last_date greater than or equal to the one
\* stored immediately before the write.
CursorDateMonotonic == [][cursor'.last_date >= cursor.last_date]_vars

\* ---- C6 ----------------------------------------------------------------------
\* C6: a run in which messages.list, a messages.get or the batch commit fails
\* returns success=false, has written no staging item and leaves the cursor
\* and the staging store as they are.
FailedRunWritesNothing ==
  /\ [](\A r \in Runs : syncPc[r] \in {"list", "fetch"} => syncWrote[r] = {})
  /\ [][\A r \in Runs :
          (syncPc[r] \in {"list", "fetch"} /\ syncPc'[r] = "done"
             /\ ~syncResult'[r].success)
          => /\ cursor' = cursor
             /\ staging' = staging
             /\ syncWrote'[r] = {}]_vars

\* a run failed after the list call returned new messages, the cursor is the
\* one it read
FailedAfterList ==
  \E r \in Runs :
    /\ syncPc[r] = "done" /\ ~syncResult[r].success
    /\ syncPage[r] # <<>>
    /\ syncWrote[r] = {}
    /\ cursor = syncSnap[r]
    /\ \A i \in Range(syncPage[r]) : MsgDocId(i) \notin DOMAIN staging

\* ---- C7 ----------------------------------------------------------------------
\* C7: the cursor is written only by a run whose batch has committed; a run
\* that stops between the commit and the cursor write leaves the cursor as
\* it is, and a following run with the same cursor and page writes the same
\* items again, the set of staged ids staying the same.
CursorOnlyAfterCommit ==
  [][/\ cursor' # cursor
          => \E r \in Runs :
               /\ syncPc[r] = "cursor" /\ syncPc'[r] = "done"
               /\ syncWrote[r] =
                    {MsgDocId(i) : i \in {j \in Range(NewMessages(syncSnap[r], syncPage[r])) :
                                            mailbox[j].payload}}
               /\ syncWrote[r] \subseteq DOMAIN staging
     /\ \A r \in Runs :
          (syncPc[r] = "cursor" /\ syncPc'[r] = "crashed") => cursor' = cursor
     /\ \A r1, r2 \in Runs :
          (/\ syncPc[r1] = "crashed" /\ CommitStep(r2)
           /\ syncSnap[r2] = syncSnap[r1] /\ syncPage[r2] = syncPage[r1])
          => /\ syncWrote'[r2] = syncWrote[r1]
             /\ DOMAIN staging' = DOMAIN staging]_vars

\* the run after a crashed one has committed the same batch
RefetchedAfterCrash ==
  \E r1, r2 \in Runs :
    /\ syncPc[r1] = "crashed" /\ syncPc[r2] = "cursor"
    /\ syncSnap[r2] = syncSnap[r1] /\ syncPage[r2] = syncPage[r1]
    /\ syncWrote[r2] = syncWrote[r1] /\ syncWrote[r1] # {}
    /\ cursor = syncSnap[r1]
    /\ DOMAIN staging = syncWrote[r1]

\* ---- C8 ----------------------------------------------------------------------
\* C8: a fetch that stages a message id whose item already has status review
\* or error changes neither the status nor the parsedData of that item.
RestageKeepsOutcome ==
  [][\A r \in Runs :
       CommitStep(r)
       => \A d \in syncWrote'[r] \cap DOMAIN staging :
            staging[d].status \in {"review", "error"}
            => /\ staging'[d].status = staging[d].status
               /\ staging'[d].parsedData = staging[d].parsedData]_vars

\* ---- C9 ----------------------------------------------------------------------
\* C9: an item is created with status pending, and a step changes the status
\* of an item only along pending->review, pending->error or error->pending;
\* an item of any status may be deleted.
StatusEdges ==
  [][\A d \in DOMAIN staging' :
       IF d \notin DOMAIN staging
       THEN staging'[d].status = "pending"
       ELSE \/ staging'[d].status = staging[d].status
            \/ <<staging[d].status, staging'[d].status>>
                 \in {<<"pending", "review">>, <<"pending", "error">>,
                      <<"error", "pending">>}]_vars

\* ---- C10 ---------------------------------------------------------------------
\* the outcome C10 gives for one model response
Outcome(resp) ==
  IF resp.thrown THEN "error"
  ELSE IF StripFences(resp.text) = <<"n", "u", "l", "l">> THEN "error"
  ELSE IF JsonParses(StripFences(resp.text)) THEN "review"
  ELSE "error"

\* the outcomes of the response texts, written out
OutcomeTable ==
  /\ Outcome(Thrown) = "error"
  /\ Outcome(Reply(<<>>)) = "error"
  /\ Outcome(Reply(TxtNull)) = "error"
  /\ Outcome(Reply(TxtFencedNull)) = "error"
  /\ Outcome(Reply(TxtSplitNull)) = "error"
  /\ Outcome(Reply(TxtNotJson)) = "error"
  /\ Outcome(Reply(TxtTruncated)) = "error"
  /\ Outcome(Reply(TxtObject)) = "review"
  /\ Outcome(Reply(TxtFencedObject)) = "review"
  /\ StripFences(TxtFencedObject) = TxtObject
  /\ Outcome(Reply(TxtNumber)) = "review"
  /\ Outcome(Reply(TxtZero)) = "review"

\* C10: when the batch of an extraction run commits, each item that had a
\* model call ends with status error if the call failed, if the stripped and
\* trimmed text is "null" or if that text does not parse as JSON, and
\* otherwise with status review and parsedData equal to that text.
ExtractionOutcome ==
  [][\A p \in Procs :
       (procPc[p] = "commit" /\ procPc'[p] = "done" /\ procResult'[p].success)
       => /\ OutcomeTable
          /\ \A d \in DOMAIN procResp[p] :
               /\ d \in DOMAIN staging'
               /\ staging'[d].status = Outcome(procResp[p][d])
               /\ Outcome(procResp[p][d]) = "review"
                    => staging'[d].parsedData =
                         Text(StripFences(procResp[p][d].text))]_vars

\* a run has committed two items, one whose fenced text "null" ended in error
\* and one whose fenced object ended in review with the bare object as data
ExtractedBoth ==
  \E p \in Procs : \E d1, d2 \in DOMAIN procResp[p] \cap DOMAIN staging :
    /\ procPc[p] = "done" /\ procResult[p].success
    /\ procResp[p][d1] = Reply(TxtFencedNull)
    /\ staging[d1].status = "error"
    /\ procResp[p][d2] = Reply(TxtFencedObject)
    /\ staging[d2].status = "review"
    /\ staging[d2].parsedData = Text(TxtObject)

\* ---- C11 ---------------------------------------------------------------------
\* the model call of the item failed or its output does not parse
ItemFailed(resp) == resp.thrown \/ ~JsonParses(StripFences(resp.text))

\* C11: when the batch of a run holds an item whose model output is
\* unparseable or whose model call failed, the run returns success, that item
\* ends with status error, and every other item of the batch gets the status
\* its own output determines; the count is the number of items moved to review.
FailuresIsolated ==
  [][\A p \in Procs :
       (/\ procPc[p] = "commit" /\ procPc'[p] = "done"
        /\ \E d \in DOMAIN procResp[p] : ItemFailed(procResp[p][d]))
       => /\ procResult'[p].success
          /\ \A d \in DOMAIN procResp[p] :
               /\ ItemFailed(procResp[p][d]) => staging'[d].status = "error"
               /\ ~ItemFailed(procResp[p][d])
                    => staging'[d].status =
                         (IF StripFences(procResp[p][d].text) = TxtNull
                          THEN "error" ELSE "review")
          /\ procResult'[p].count =
               Cardinality({d \in DOMAIN procResp[p] : staging'[d].status = "review"})
          /\ \A d \in DOMAIN staging \ DOMAIN procResp[p] : staging'[d] = staging[d]]_vars

\* a run has returned success for a batch of two, the model call of one item
\* failed and the other item went to review
OneFailedOneReviewed ==
  \E p \in Procs : \E d1, d2 \in DOMAIN procResp[p] \cap DOMAIN staging :
    /\ procPc[p] = "done" /\ procResult[p] = [success |-> TRUE, count |-> 1]
    /\ procResp[p][d1] = Thrown
    /\ staging[d1].status = "error"
    /\ procResp[p][d2] = Reply(TxtObject)
    /\ staging[d2].status = "review"

\* ---- C12 ---------------------------------------------------------------------
\* C12: extraction runs of one account are single-flight: no pending item is
\* sent to the model by two runs that are in flight together.
SingleFlight ==
  \A p, q \in Procs :
    (p # q /\ procPc[p] = "commit" /\ procPc[q] = "commit")
      => DOMAIN procResp[p] \cap DOMAIN procResp[q] = {}

\* ---- C13 ---------------------------------------------------------------------
\* C13: a staging item leaves the store only when the expense form that was
\* filled from that same item has been saved; closing the form without saving
\* and saving another expense afterwards leave the item in place.
PromotionDeletesOwnItem ==
  [][\A d \in DOMAIN staging : d \notin DOMAIN staging' => formItem = d]_vars

\* ---- C14 ---------------------------------------------------------------------
\* C14: when the form of a reviewed item is saved, the item is deleted from
\* the staging store, and an item that was promoted is not promoted again.
PromotedOnce ==
  [][(formOpen /\ ~formOpen' /\ formItem # NoDoc /\ formItem \in promoted')
       => /\ formItem \notin DOMAIN staging'
          /\ formItem \notin promoted]_vars

\* ---- C15 ---------------------------------------------------------------------
\* C15: retrying an item with status error sets its status to pending and its
\* parsedData to null in a step of its own, before handleRetry invokes the
\* extraction; the invocation follows, and when an extraction run then gets a
\* JSON value other than null for the retried item, the item ends with status
\* review and that output as its payload.
RetryThenExtract ==
  [][/\ (retryPc = "idle" /\ retryPc' = "updated")
          => /\ procPc' = procPc
             /\ \E d \in DOMAIN staging :
                  /\ staging[d].status = "error"
                  /\ d \in DOMAIN staging'
                  /\ staging'[d].status = "pending"
                  /\ staging'[d].parsedData = NullField
                  /\ \A e \in DOMAIN staging \ {d} :
                       e \in DOMAIN staging' /\ staging'[e] = staging[e]
     /\ (retryPc = "updated" /\ retryPc' = "idle")
          => /\ procPc["handler"] = "idle" /\ procPc'["handler"] # "idle"
             /\ procSel'["handler"] = SelectPending(staging, User)
     /\ \A p \in Procs : \A d \in DOMAIN procResp[p] \cap DOMAIN staging :
          (/\ procPc[p] = "commit" /\ procPc'[p] = "done"
           /\ staging[d].status = "pending"
           /\ staging[d].parsedData = NullField
           /\ ~ItemFailed(procResp[p][d])
           /\ StripFences(procResp[p][d].text) # TxtNull)
          => /\ staging'[d].status = "review"
             /\ staging'[d].parsedData = Text(StripFences(procResp[p][d].text))]_vars

\* the only staged item failed, was retried, and the run handleRetry started
\* has moved it to review with a payload
RetriedToReview ==
  \E d \in DOMAIN staging :
    /\ DOMAIN staging = {d}
    /\ retryPc = "idle"
    /\ procPc["handler"] = "done"
    /\ procSel["handler"] = {d}
    /\ procResult["handler"] = [success |-> TRUE, count |-> 1]
    /\ staging[d].status = "review"
    /\ staging[d].parsedData = Text(TxtObject)

\* ---- C16 ---------------------------------------------------------------------
\* a step in which the auto-sync effect fires (with or without a fetch call)
FiringStep == prevFire' # prevFire /\ prevFire' # [prevFire EXCEPT !.reset = TRUE]

\* C16: with a stored refresh token, when a firing of the auto-sync effect
\* has called the fetcher and no manual sync has reset the timer since, the
\* next firing less than AutoSyncCooldown later calls nothing (one call for
\* the two firings), and the next firing more than AutoSyncCooldown later
\* calls the fetcher again (two calls).
OneFetchPerCooldown ==
  [][(FiringStep /\ prevFire.called /\ ~prevFire.reset)
       => /\ now - prevFire.at < AutoSyncCooldown
               => /\ ~prevFire'.called
                  /\ syncPc' = syncPc
                  /\ syncResult' = syncResult
          /\ now - prevFire.at > AutoSyncCooldown
               => /\ prevFire'.called
                  /\ syncPc["auto"] = "idle"
                  /\ syncPc'["auto"] # "idle"]_vars

\* the effect fired within the cooldown of its own earlier call and was skipped
SecondFiringSkipped ==
  /\ ~prevFire.called
  /\ ~prevFire.reset
  /\ lastAutoSync >= StartTime
  /\ prevFire.at > lastAutoSync
  /\ prevFire.at - lastAutoSync < AutoSyncCooldown

AutoExtractDebounced ==
  [][\A p \in {"effect", "followup"} :
       (procPc[p] = "idle" /\ procPc'[p] # "idle" /\ lastAutoExtract > 0)
         => ~(now - lastAutoExtract < AutoProcessCooldown)]_vars

\* ---- C19 ---------------------------------------------------------------------
\* C19: when Sync Now has fetched, both the auto-sync and the auto-process
\* timestamps of the account are set to the current time.
ManualSyncResetsTimers ==
  [][(syncPc["manual"] = "done" /\ syncPc'["manual"] = "idle")
       => /\ lastAutoSync' = now
          /\ lastAutoProcess' = now]_vars

\* ---- C20 ---------------------------------------------------------------------
\* C20: after an automatic fetch was refused for its refresh credential, no
\* automatic fetch is attempted until the user has consented again, and the
\* refusal is shown to the user when the fetch returns.
AutoSyncDisabledOnAuthFailure ==
  [][/\ (authFailed /\ authFailed')
          => ~(syncPc["auto"] = "idle" /\ syncPc'["auto"] # "idle")
     /\ (/\ syncPc["auto"] = "done" /\ syncPc'["auto"] = "idle"
         /\ ~syncResult["auto"].success)
          => syncError']_vars

\* ---- C21 ---------------------------------------------------------------------
\* C21: a fetch called without access token for an account whose refresh
\* token is missing or rejected by the provider returns a result with
\* success false, and the cursor, the staging store and lastSyncedAt are as
\* before the call.
NoCredentialNoWrite ==
  [][\A r \in Runs :
       (syncPc[r] = "idle" /\ syncPc'[r] # "idle" /\ token # "valid")
         => /\ syncPc'[r] = "done"
            /\ ~syncResult'[r].success
            /\ cursor' = cursor
            /\ staging' = staging
            /\ lastSyncedAt' = lastSyncedAt]_vars

\* Sync Now has returned a failure without reading the cursor that an earlier
\* run wrote: the provider rejected the stored refresh token
RejectedAfterSync ==
  /\ token = "rejected"
  /\ syncPc["manual"] = "done"
  /\ ~syncResult["manual"].success
  /\ cursor.exists
  /\ ~syncSnap["manual"].exists
  /\ staging # <<>>
  /\ lastSyncedAt > 0

\* ---- C22 ---------------------------------------------------------------------
\* a step of the SMS webhook
SmsStep == smsRequest' # smsRequest \/ smsReply' # smsReply \/ smsCount' # smsCount

\* C22: an SMS request whose sender or body is missing or empty is answered
\* with status 400 and success false, and the staging store is unchanged.
SmsMissingFieldsRejected ==
  [][(SmsStep /\ (smsRequest'.sender = <<>> \/ smsRequest'.body = <<>>))
       => /\ smsReply' = [status |-> 400, success |-> FALSE]
          /\ staging' = staging
          /\ smsCount' = smsCount]_vars

\* a request with a sender and no body has been answered with 400 while an
\* item of the account is staged
SmsBodyMissing ==
  /\ smsRequest = [sender |-> SmsSenderBank, body |-> <<>>]
  /\ smsReply.status = 400
  /\ staging # <<>>

\* ---- C23 ---------------------------------------------------------------------
\* the request bodies of the model that hold a transaction keyword
KeywordBodies == {SmsBodySpent, SmsBodyDebited}

\* C23: for an SMS request with sender and body present, a body without
\* transaction keyword gets a success response and the store is unchanged; a
\* body with one adds exactly one item with type sms, status pending, the
\* account key unknown_mobile and a message id no stored item has, and every
\* stored item is unchanged.
SmsStagedOnce ==
  [][(SmsStep /\ smsRequest'.sender # <<>> /\ smsRequest'.body # <<>>)
       => /\ smsReply'.success /\ smsReply'.status = 200
          /\ smsRequest'.body \notin KeywordBodies => staging' = staging
          /\ smsRequest'.body \in KeywordBodies
               => \E d \in DOMAIN staging' \ DOMAIN staging :
                    /\ DOMAIN staging' = DOMAIN staging \cup {d}
                    /\ staging'[d].type = "sms"
                    /\ staging'[d].status = "pending"
                    /\ staging'[d].userEmail = UnknownMobile
                    /\ \A e \in DOMAIN staging :
                         /\ staging'[e] = staging[e]
                         /\ staging[e].emailId # staging'[d].emailId]_vars

\* an SMS with a keyword in capitals was staged next to an email item in review
SmsStagedNextToEmail ==
  /\ smsRequest = [sender |-> SmsSenderBank, body |-> SmsBodySpent]
  /\ smsCount = 1
  /\ SmsDocId(1) \in DOMAIN staging
  /\ staging[SmsDocId(1)].status = "pending"
  /\ \E e \in DOMAIN staging : staging[e].status = "review"

\* ---- C24 ---------------------------------------------------------------------
\* C24: an item staged by the SMS webhook with status pending and enough
\* content is eventually moved to review or error, the sync view being open
\* and the auto-process effect firing whenever its debounce allows.
SmsEventuallyExtracted ==
  \A n \in 1..MaxSms :
    []((/\ SmsDocId(n) \in DOMAIN staging
        /\ staging[SmsDocId(n)].status = "pending"
        /\ staging[SmsDocId(n)].contentLen >= MinContentLen)
       => <>(/\ SmsDocId(n) \in DOMAIN staging
             /\ staging[SmsDocId(n)].status \in {"review", "error"}))

\* ---- C25 ---------------------------------------------------------------------
\* the entries of a page whose messages.get result has a payload
WithPayload(page) == {page[k] : k \in {j \in DOMAIN page : mailbox[page[j]].payload}}

\* the list of a run that read no cursor record: the newest messages of the
\* whole mailbox, ColdMaxResults at most
ColdList(r) ==
  (/\ ListStep(r) /\ ~syncSnap[r].exists
   /\ ~(syncPc'[r] = "done" /\ ~syncResult'[r].success))
    => /\ Len(syncPage'[r]) = Min(ColdMaxResults, Len(mailbox))
       /\ \A k \in DOMAIN syncPage'[r] : syncPage'[r][k] = Len(mailbox) - k + 1

UpToDate == mailbox = <<>> \/ (cursor.exists /\ cursor.last_entry = Len(mailbox))

\* C26: a fetch that succeeds leaves the cursor at the newest message it
\* listed, and a fetch that runs next over the unchanged mailbox stages
\* nothing, returns count 0 and leaves the cursor and every staged item, status
\* and parsedData included, as they are.
RefetchIsNoOp ==
  [][\A r \in Runs :
       /\ (CursorStep(r) /\ syncPage[r][1] = Len(mailbox)) => UpToDate'
       /\ (ListStep(r) /\ syncSnap[r] = cursor /\ UpToDate)
            => /\ syncPc'[r] = "done"
               /\ syncResult'[r] = [success |-> TRUE, count |-> 0]
               /\ staging' = staging
               /\ cursor' = cursor
               /\ syncWrote'[r] = {}]_vars

\* a second fetch over the same mailbox has returned count 0 while an item of
\* the first one is in review with its payload
RefetchedNothing ==
  /\ syncPc["manual"] = "done"
  /\ syncResult["manual"] = [success |-> TRUE, count |-> 0]
  /\ syncSnap["manual"].exists
  /\ syncSnap["manual"].last_entry = Len(mailbox)
  /\ syncPage["manual"] # <<>>
  /\ \E d \in DOMAIN staging :
       staging[d].status = "review" /\ staging[d].parsedData = Text(TxtObject)

\* ---- C27 ---------------------------------------------------------------------
\* C27: every listed item can be deleted by hand, whatever its status, and a
\* step that takes an item out of the store takes out that item alone and
\* leaves every other item, the cursor and the stored credential unchanged.
DeleteAnyStatus ==
  [][/\ \A d \in Listed(staging) : ENABLED Delete(d)
     /\ \A d \in DOMAIN staging \ DOMAIN staging' :
          /\ DOMAIN staging' = DOMAIN staging \ {d}
          /\ \A e \in DOMAIN staging' : staging'[e] = staging[e]
          /\ cursor' = cursor
          /\ token' = token
          /\ lastSyncedAt' = lastSyncedAt]_vars

\* the item of the first message and the SMS item have been deleted by hand;
\* the item of the second message is in review and the cursor names it
DeletedByHand ==
  /\ Len(mailbox) = 2
  /\ cursor.exists /\ cursor.last_entry = 2
  /\ MsgDocId(1) \notin DOMAIN staging
  /\ MsgDocId(2) \in DOMAIN staging
  /\ staging[MsgDocId(2)].status = "review"
  /\ smsCount = 1 /\ SmsDocId(1) \notin DOMAIN staging

\* ---- C28 ---------------------------------------------------------------------
\* C28: the auto-process timestamp is written in the step that issues the
\* extraction call, and while a call of the effect is outstanding, a firing
\* of the effect with a pending item listed and the debounce passed can issue
\* another extraction call.
StuckCallBlocksNothing ==
  [][/\ \A p \in EffectRuns :
          (procPc[p] = "idle" /\ procPc'[p] # "idle") => lastAutoProcess' = now
     /\ (/\ procPc["effect"] = "commit" /\ procPc["again"] = "idle"
         /\ \E d \in Listed(staging) : staging[d].status = "pending"
         /\ now - lastAutoProcess > AutoProcessCooldown)
          => ENABLED AutoProcessFireOn("again", {Reply(TxtObject)})]_vars

\* a second call of the effect is in flight, issued more than the debounce
\* after the first one, which is still outstanding with an item selected
SecondCallWhileStuck ==
  /\ procPc["effect"] = "commit"
  /\ procSel["effect"] # {}
  /\ procPc["again"] # "idle"
  /\ lastAutoProcess = now
  /\ now > StartTime + AutoProcessCooldown

\* ---- C29 ---------------------------------------------------------------------
\* C29: a stored refresh credential stays stored over every step (fetch runs
\* that succeed or fail, a rejected token refresh, extraction runs, SMS posts,
\* consent exchanges with or without a new refresh token), and the status
\* check reports the account as enabled.
CredentialKept ==
  [][IsEnabled(token) => IsEnabled(token')]_vars

\* the credential is still stored after its refresh was rejected in a fetch
\* run, with an SMS posted and a message of the account staged meanwhile
KeptAfterRejectedRefresh ==
  /\ token = "rejected"
  /\ IsEnabled(token)
  /\ syncPc["manual"] = "done"
  /\ ~syncResult["manual"].success
  /\ smsCount > 0
  /\ \E d \in DOMAIN staging : staging[d].userEmail = User

\* the provider's answer to the list call of run r is empty
EmptyPage(r) ==
  ListMessages(mailbox, AfterSeconds(syncSnap[r]), MaxResultsFor(syncSnap[r])) = <<>>

\* ---- C30 ---------------------------------------------------------------------
\* C30: a fetch whose list call returns zero messages ends with success and
\* count 0, stamps lastSyncedAt, and leaves the cursor record, the stored
\* credential and every staging item as they were.
EmptyFetchOnlyStamps ==
  [][\A r \in Runs :
       (ListStep(r) /\ EmptyPage(r))
         => /\ syncPc'[r] = "done"
            /\ syncResult'[r] = [success |-> TRUE, count |-> 0]
            /\ lastSyncedAt' = now
            /\ cursor' = cursor
            /\ staging' = staging
            /\ token' = token]_vars

\* a fetch over a mailbox without matching messages got an empty page: it
\* returned count 0 with the stamp written, no cursor record was created and
\* the SMS item staged before it is still there
EmptyFetchDone ==
  /\ syncPc["manual"] = "done"
  /\ syncPage["manual"] = <<>>
  /\ mailbox = <<>>
  /\ syncResult["manual"] = [success |-> TRUE, count |-> 0]
  /\ lastSyncedAt = now
  /\ ~cursor.exists
  /\ \E d \in DOMAIN staging : staging[d].type = "sms"

\* ---- C31 ---------------------------------------------------------------------
\* C31: the count a successful fetch run returns is the number of staging
\* documents its batch wrote.
CountIsStagedCount ==
  \A r \in Runs :
    (syncPc[r] = "done" /\ syncResult[r].success)
      => syncResult[r].count = Cardinality(syncWrote[r])

\* the step of run p that runs the pending query, and the step that commits
\* its batch
ProcSelectStep(p) == procPc[p] = "idle" /\ procPc'[p] # "idle"
ProcCommitStep(p) == procPc[p] = "commit" /\ procPc'[p] = "done"

ShortSelected(p) ==
  {d \in procSel[p] \cap DOMAIN staging : staging[d].contentLen < MinContentLen}

\* ---- C33 ---------------------------------------------------------------------
\* C33: a selected pending item with content shorter than 10 characters gets
\* no model call and is left as it is by the commit, pending and without
\* parsed data; the count returned is the number of items moved to review, and
\* the other selected items are moved to review or error.
ShortContentSkipped ==
  [][\A p \in Procs :
       /\ ProcSelectStep(p) /\ procPc'[p] = "commit"
            => DOMAIN procResp'[p] =
                 {d \in procSel'[p] : staging[d].contentLen >= MinContentLen}
       /\ ProcCommitStep(p) /\ procResult'[p].success
            => /\ \A d \in ShortSelected(p) :
                    /\ d \notin DOMAIN procResp[p]
                    /\ staging'[d] = staging[d]
               /\ \A d \in procSel[p] \ ShortSelected(p) :
                    staging'[d].status \in {"review", "error"}
               /\ procResult'[p].count =
                    Cardinality({d \in procSel[p] :
                                   staging[d].status = "pending"
                                   /\ staging'[d].status = "review"})]_vars

\* a run has committed a batch with a short item, which is still pending
\* without parsed data, and a longer one, which is in review; the count is 1
ShortSkippedLongReviewed ==
  /\ procPc["handler"] = "done"
  /\ procResult["handler"] = [success |-> TRUE, count |-> 1]
  /\ \E d \in ShortSelected("handler") :
       staging[d].status = "pending" /\ staging[d].parsedData = Absent
  /\ \E d \in procSel["handler"] :
       staging[d].contentLen >= MinContentLen /\ staging[d].status = "review"

\* ---- C34 ---------------------------------------------------------------------
\* C34: in every reachable state a staging item holds parsed data exactly when
\* its status is review.
PayloadIffReview ==
  \A d \in DOMAIN staging :
    staging[d].parsedData[1] = "text" <=> staging[d].status = "review"

\* ---- C35 ---------------------------------------------------------------------
\* C35: the batch of a fetch run creates no staging item for a message whose
\* item was promoted to the ledger and removed from the store.
NoRestageAfterPromotion ==
  [][\A r \in Runs :
       CommitStep(r) => \A d \in DOMAIN staging' \ DOMAIN staging : d \notin promoted]_vars

ReviewItemsPromotable ==
  \A d \in Listed(staging) :
    staging[d].status = "review" => Truthy(staging[d].parsedData)

====
